---- MODULE Spec2Model ----
(***************************************************************************)
(* GoNo: the session state machine of main.go (Model.Update and the        *)
(* handlers it calls), the path-containment guard (insideVault, samePath)  *)
(* and the vault registry (load/save/register/unregister, getVaults).      *)
(*                                                                         *)
(* A Go string is modelled as a sequence of one-character strings, so that *)
(* the string functions the code uses (TrimSpace, HasPrefix, ToLower, the  *)
(* lexical path functions of path/filepath) are computed character by      *)
(* character as the code computes them.                                    *)
(***************************************************************************)
EXTENDS Integers, Sequences, FiniteSets, TLC

VARIABLES
    m,          \* the Model value of the session
    fs,         \* the disk
    regFile,    \* the registry file ~/.gono_vaults.json
    cwd,        \* the working directory of the process, <<>> when os.Getwd fails
    probe       \* the arguments and results of a function applied on its own

---------------------------------------------------------------------------
(* Characters and strings                                                  *)

\* The characters of the model's alphabet, in ascending byte order.
Ascii ==
    <<" ", "'", ".", "/", "1", "A", "N", "V", "a", "d", "h", "m", "n", "o", "q", "v">>

\* Byte order of a character (Go compares strings bytewise).
AsciiIndex ==
    [c \in {Ascii[i] : i \in 1..Len(Ascii)} |-> CHOOSE i \in 1..Len(Ascii) : Ascii[i] = c]
Ord(c) == AsciiIndex[c]

\* unicode.IsLetter / unicode.IsDigit on the alphabet.
IsLetter(c) == c \in {"A", "N", "V", "a", "d", "h", "m", "n", "o", "q", "v"}
IsDigit(c) == c \in {"1"}

\* unicode.ToLower on the alphabet.
ToLowerChar(c) ==
    CASE c = "A" -> "a"
      [] c = "N" -> "n"
      [] c = "V" -> "v"
      [] OTHER -> c

\* strings.ToLower
ToLower(s) == [i \in 1..Len(s) |-> ToLowerChar(s[i])]

MinOf(S) == CHOOSE x \in S : \A y \in S : x <= y

\* The Go operator < on strings: bytewise lexicographic order.
StrLess(a, b) ==
    LET n == IF Len(a) < Len(b) THEN Len(a) ELSE Len(b)
        diff == {i \in 1..n : a[i] # b[i]}
    IN  IF diff = {} THEN Len(a) < Len(b)
        ELSE Ord(a[MinOf(diff)]) < Ord(b[MinOf(diff)])

\* strings.HasPrefix
HasPrefix(s, p) == Len(p) <= Len(s) /\ SubSeq(s, 1, Len(p)) = p

RECURSIVE TrimLeft(_, _)
TrimLeft(s, cut) ==
    IF s # <<>> /\ Head(s) \in cut THEN TrimLeft(Tail(s), cut) ELSE s

RECURSIVE TrimRight(_, _)
TrimRight(s, cut) ==
    IF s # <<>> /\ s[Len(s)] \in cut
    THEN TrimRight(SubSeq(s, 1, Len(s) - 1), cut)
    ELSE s

\* strings.Trim(s, cutset)
Trim(s, cut) == TrimRight(TrimLeft(s, cut), cut)

\* strings.TrimSpace (the blank is the alphabet's only white space)
TrimSpace(s) == Trim(s, {" "})

---------------------------------------------------------------------------
(* path/filepath, Unix flavour                                             *)

Sep == "/"
Dot == <<".">>
DotDot == <<".", ".">>

\* The elements of a path between its separators (empty ones included).
Split(s) ==
    LET at == SelectSeq([i \in 1..Len(s) |-> i], LAMBDA i : s[i] = Sep)
        cut(seps) == [k \in 1..(Len(seps) - 1) |-> SubSeq(s, seps[k] + 1, seps[k + 1] - 1)]
    IN  cut(<<0>> \o at \o <<Len(s) + 1>>)

\* The elements joined by separators.
RECURSIVE JoinSep(_)
JoinSep(comps) ==
    IF comps = <<>> THEN <<>>
    ELSE IF Len(comps) = 1 THEN comps[1]
    ELSE comps[1] \o <<Sep>> \o JoinSep(Tail(comps))

\* The element loop of filepath.Clean: empty and "." elements are dropped,
\* ".." removes the element before it, is dropped at the root, and is kept
\* at the front of a relative path.
RECURSIVE CleanComps(_, _, _)
CleanComps(comps, out, rooted) ==
    IF comps = <<>> THEN out
    ELSE LET c == Head(comps)
             rest == Tail(comps)
         IN  IF c = <<>> \/ c = Dot THEN CleanComps(rest, out, rooted)
             ELSE IF c = DotDot
             THEN IF out # <<>> /\ out[Len(out)] # DotDot
                  THEN CleanComps(rest, SubSeq(out, 1, Len(out) - 1), rooted)
                  ELSE IF ~rooted
                  THEN CleanComps(rest, Append(out, DotDot), rooted)
                  ELSE CleanComps(rest, out, rooted)
             ELSE CleanComps(rest, Append(out, c), rooted)

\* filepath.Clean
Clean(p) ==
    IF p = <<>> THEN Dot
    ELSE LET rooted == p[1] = Sep
             out == CleanComps(Split(p), <<>>, rooted)
         IN  IF rooted THEN <<Sep>> \o JoinSep(out)
             ELSE IF out = <<>> THEN Dot
             ELSE JoinSep(out)

\* filepath.Join of two elements: empty elements are ignored, the result is
\* cleaned, and the join of nothing is the empty string.
Join(a, b) ==
    IF a = <<>> /\ b = <<>> THEN <<>>
    ELSE IF a = <<>> THEN Clean(b)
    ELSE IF b = <<>> THEN Clean(a)
    ELSE Clean(a \o <<Sep>> \o b)

\* filepath.IsAbs
IsAbs(p) == p # <<>> /\ p[1] = Sep

\* filepath.Dir: everything up to the last separator, cleaned.
Dir(p) ==
    LET seps == {i \in 1..Len(p) : p[i] = Sep}
    IN  IF seps = {} THEN Dot
        ELSE Clean(SubSeq(p, 1, CHOOSE i \in seps : \A j \in seps : j <= i))

\* filepath.Base: the last element, trailing separators removed.
Base(p) ==
    IF p = <<>> THEN Dot
    ELSE LET q == TrimRight(p, {Sep})
             seps == {i \in 1..Len(q) : q[i] = Sep}
         IN  IF q = <<>> THEN <<Sep>>
             ELSE IF seps = {} THEN q
             ELSE SubSeq(q, (CHOOSE i \in seps : \A j \in seps : j <= i) + 1, Len(q))

\* The non-empty elements of a cleaned path.
Elems(p) == SelectSeq(Split(p), LAMBDA c : c # <<>>)

\* Length of the longest common prefix of two element sequences.
CommonLen(b, t) ==
    LET n == IF Len(b) < Len(t) THEN Len(b) ELSE Len(t)
        diff == {i \in 1..n : b[i] # t[i]}
    IN  IF diff = {} THEN n ELSE MinOf(diff) - 1

\* filepath.Rel: the path from base to targ. The common leading elements
\* are skipped, each remaining element of base becomes "..", and the rest
\* of targ follows. An error when one path is rooted and the other is not,
\* or when base still has a ".." where the paths part.
Rel(basepath, targpath) ==
    LET parted(base0, targ, base, b, t, k) ==
            IF targ = base0 THEN [err |-> FALSE, path |-> Dot]
            ELSE IF IsAbs(base) # IsAbs(targ) THEN [err |-> TRUE, path |-> <<>>]
            ELSE IF k < Len(b) /\ b[k + 1] = DotDot THEN [err |-> TRUE, path |-> <<>>]
            ELSE [err |-> FALSE,
                  path |-> JoinSep([i \in 1..(Len(b) - k) |-> DotDot]
                                      \o SubSeq(t, k + 1, Len(t)))]
        split(base0, targ, base, b, t) == parted(base0, targ, base, b, t, CommonLen(b, t))
        based(base0, targ, base) == split(base0, targ, base, Elems(base), Elems(targ))
        cleaned(base0, targ) == based(base0, targ, IF base0 = Dot THEN <<>> ELSE base0)
    IN  cleaned(Clean(basepath), Clean(targpath))

---------------------------------------------------------------------------
(* The disk: a function from the absolute paths that exist to their node.  *)
(* The registry file is kept apart from it, in regFile.                    *)

DirNode == [isDir |-> TRUE, content |-> <<>>]
FileNode(t) == [isDir |-> FALSE, content |-> t]

Exists(f, p) == p \in DOMAIN f
IsDirAt(f, p) == p \in DOMAIN f /\ f[p].isDir

\* p itself and everything below it.
Tree(f, p) ==
    {q \in DOMAIN f : q = p \/ HasPrefix(q, IF p = <<Sep>> THEN p ELSE p \o <<Sep>>)}

\* The nodes directly in the directory p: p, a separator and one element.
Children(f, p) ==
    LET stem == IF p = <<Sep>> THEN p ELSE p \o <<Sep>>
    IN  {q \in DOMAIN f :
            /\ Len(q) > Len(stem)
            /\ HasPrefix(q, stem)
            /\ \A i \in (Len(stem) + 1)..Len(q) : q[i] # Sep}

RECURSIVE SortedNames(_)
SortedNames(S) ==
    IF S = {} THEN <<>>
    ELSE LET lo == CHOOSE x \in S : \A y \in S \ {x} : StrLess(x, y)
         IN  <<lo>> \o SortedNames(S \ {lo})

\* sort.Slice on a slice of at most 12 elements is an insertion sort: the
\* elements end in the order of less, equal ones in their original order.
\* As in Go, less is given on indices: less[i][j] says that s[i] is to
\* come before s[j].
StableSort(s, less) ==
    LET pos(i) ==
            1 + Cardinality({j \in 1..Len(s) : less[j][i]})
              + Cardinality({j \in 1..(i - 1) : ~less[j][i] /\ ~less[i][j]})
    IN  [k \in 1..Len(s) |-> s[CHOOSE i \in 1..Len(s) : pos(i) = k]]

\* os.Stat: an error when the call fails or nothing is there.
Stat(f, p, io) ==
    IF ~io \/ ~Exists(f, p) THEN [err |-> TRUE, isDir |-> FALSE]
    ELSE [err |-> FALSE, isDir |-> f[p].isDir]

\* os.ReadDir: the entries of a directory, sorted by file name.
ReadDir(f, p, io) ==
    LET listed(nodes) ==
            [err |-> FALSE,
             files |-> [i \in 1..Len(nodes) |->
                           [name |-> Base(nodes[i]), isDir |-> f[nodes[i]].isDir]]]
    IN  IF ~io \/ ~IsDirAt(f, p) THEN [err |-> TRUE, files |-> <<>>]
        ELSE listed(SortedNames(Children(f, p)))

\* os.ReadFile
ReadFile(f, p, io) ==
    IF ~io \/ ~Exists(f, p) \/ IsDirAt(f, p) THEN [err |-> TRUE, content |-> <<>>]
    ELSE [err |-> FALSE, content |-> f[p].content]

\* The disk with node n at path p.
Put(f, p, n) == [q \in DOMAIN f \cup {p} |-> IF q = p THEN n ELSE f[q]]

\* A write that truncates the file and stores nothing.
WriteFileEmpty(f, p, t, io) ==
    IF ~io \/ IsDirAt(f, p) \/ ~IsDirAt(f, Dir(p)) THEN [err |-> TRUE, fs |-> f]
    ELSE [err |-> FALSE, fs |-> Put(f, p, FileNode(<<>>))]

\* os.WriteFile: creates or truncates the file.
WriteFile(f, p, t, io) ==
    IF ~io \/ IsDirAt(f, p) \/ ~IsDirAt(f, Dir(p)) THEN [err |-> TRUE, fs |-> f]
    ELSE [err |-> FALSE, fs |-> Put(f, p, FileNode(t))]

\* os.OpenFile without O_EXCL: an existing file is opened, and truncated.
OpenFileTrunc(f, p, io) ==
    IF ~io \/ IsDirAt(f, p) \/ ~IsDirAt(f, Dir(p)) THEN [err |-> TRUE, fs |-> f]
    ELSE [err |-> FALSE, fs |-> Put(f, p, FileNode(<<>>))]

\* os.OpenFile(path, O_CREATE|O_EXCL|O_WRONLY): fails when the path exists.
OpenFileExcl(f, p, io) ==
    IF ~io \/ Exists(f, p) \/ ~IsDirAt(f, Dir(p)) THEN [err |-> TRUE, fs |-> f]
    ELSE [err |-> FALSE, fs |-> Put(f, p, FileNode(<<>>))]

\* os.Mkdir: fails when the path exists or its parent is no directory.
Mkdir(f, p, io) ==
    IF ~io \/ Exists(f, p) \/ ~IsDirAt(f, Dir(p)) THEN [err |-> TRUE, fs |-> f]
    ELSE [err |-> FALSE, fs |-> Put(f, p, DirNode)]

\* p and its ancestors.
RECURSIVE Ancestors(_)
Ancestors(p) == IF Dir(p) = p THEN {p} ELSE {p} \cup Ancestors(Dir(p))

\* os.MkdirAll: creates the directory and every missing parent; no error
\* when it is there already; an error when a file is in the way.
MkdirAll(f, p, io) ==
    IF ~io \/ \E q \in Ancestors(p) : Exists(f, q) /\ ~f[q].isDir
    THEN [err |-> TRUE, fs |-> f]
    ELSE [err |-> FALSE,
          fs |-> [q \in DOMAIN f \cup Ancestors(p) |->
                     IF q \in DOMAIN f THEN f[q] ELSE DirNode]]

\* os.Remove: a file or an empty directory.
Remove(f, p, io) ==
    IF ~io \/ ~Exists(f, p) \/ Children(f, p) # {} THEN [err |-> TRUE, fs |-> f]
    ELSE [err |-> FALSE, fs |-> [q \in DOMAIN f \ {p} |-> f[q]]]

\* os.RemoveAll: the path and everything below it; no error when it is
\* not there.
RemoveAll(f, p, io) ==
    IF ~io THEN [err |-> TRUE, fs |-> f]
    ELSE [err |-> FALSE, fs |-> [q \in DOMAIN f \ Tree(f, p) |-> f[q]]]

---------------------------------------------------------------------------
(* The containment guard                                                   *)

\* filepath.Abs: a rooted path is cleaned, any other is joined to the
\* working directory, and that fails when os.Getwd fails.
Abs(p) ==
    IF IsAbs(p) THEN [err |-> FALSE, path |-> Clean(p)]
    ELSE IF cwd = <<>> THEN [err |-> TRUE, path |-> <<>>]
    ELSE [err |-> FALSE, path |-> Join(cwd, p)]

\* A guard that compares the resolved paths as strings.
insideVaultByPrefix(vault, p) ==
    LET resolved(absVault, absPath) ==
            IF absVault.err THEN FALSE
            ELSE IF absPath.err THEN FALSE
            ELSE HasPrefix(absPath.path, absVault.path)
    IN  resolved(Abs(vault), Abs(p))

insideVault(vault, p) ==
    LET related(rel) ==
            IF rel.err THEN FALSE
            ELSE IF rel.path = Dot THEN TRUE
            ELSE IF rel.path = DotDot THEN FALSE
            ELSE ~HasPrefix(rel.path, DotDot \o <<Sep>>)
        resolved(absVault, absPath) ==
            IF absVault.err THEN FALSE
            ELSE IF absPath.err THEN FALSE
            ELSE related(Rel(absVault.path, absPath.path))
    IN  resolved(Abs(vault), Abs(p))

samePath(a, b) ==
    LET resolved(aa, bb) ==
            IF aa.err THEN FALSE
            ELSE IF bb.err THEN FALSE
            ELSE aa.path = bb.path
    IN  resolved(Abs(a), Abs(b))

---------------------------------------------------------------------------
(* The vault registry                                                      *)

NoFile == [kind |-> "absent", vaults |-> <<>>]
Malformed == [kind |-> "malformed", vaults |-> <<>>]
\* The JSON document {"vaults": [...]}.
Doc(vaults) == [kind |-> "doc", vaults |-> vaults]

\* The loop without its seen set: entries seen before are kept.
RECURSIVE CanonicalRepeating(_, _)
CanonicalRepeating(vaults, out) ==
    LET entry(clean, abs) ==
            IF clean = <<>> THEN CanonicalRepeating(Tail(vaults), out)
            ELSE IF abs.err THEN CanonicalRepeating(Tail(vaults), out)
            ELSE CanonicalRepeating(Tail(vaults), Append(out, abs.path))
        trimmed(clean) == entry(clean, Abs(clean))
    IN  IF vaults = <<>> THEN out
        ELSE trimmed(TrimSpace(Head(vaults)))

\* The loop of loadVaultRegistry and of saveVaultRegistry: every entry is
\* trimmed and made absolute; blank entries, entries that cannot be made
\* absolute and entries seen before are dropped.
RECURSIVE Canonical(_, _)
Canonical(vaults, out) ==
    LET entry(clean, abs) ==
            IF clean = <<>> THEN Canonical(Tail(vaults), out)
            ELSE IF abs.err THEN Canonical(Tail(vaults), out)
            ELSE IF \E i \in 1..Len(out) : out[i] = abs.path
            THEN Canonical(Tail(vaults), out)
            ELSE Canonical(Tail(vaults), Append(out, abs.path))
        trimmed(clean) == entry(clean, Abs(clean))
    IN  IF vaults = <<>> THEN out
        ELSE trimmed(TrimSpace(Head(vaults)))

loadVaultRegistry(reg, io) ==
    IF ~io THEN [err |-> TRUE, paths |-> <<>>]
    ELSE IF reg.kind = "absent" THEN [err |-> FALSE, paths |-> <<>>]
    ELSE IF reg.kind = "malformed" THEN [err |-> TRUE, paths |-> <<>>]
    ELSE [err |-> FALSE, paths |-> Canonical(reg.vaults, <<>>)]

\* The order of saveVaultRegistry's sort.
LowerLess(a, b) == StrLess(ToLower(a), ToLower(b))

\* saveVaultRegistry without its sort.
saveVaultRegistryUnsorted(reg, vaults, io) ==
    IF ~io THEN [err |-> TRUE, reg |-> reg]
    ELSE [err |-> FALSE, reg |-> Doc(Canonical(vaults, <<>>))]

saveVaultRegistry(reg, vaults, io) ==
    IF ~io THEN [err |-> TRUE, reg |-> reg]
    ELSE LET sorted(clean) ==
                 StableSort(clean, [i \in 1..Len(clean) |-> [j \in 1..Len(clean) |->
                                       LowerLess(clean[i], clean[j])]])
         IN  [err |-> FALSE, reg |-> Doc(sorted(Canonical(vaults, <<>>)))]

\* registerVault saving the paths it loaded, the new one left out.
registerVaultDropping(reg, path, ioR, ioW) ==
    LET with(loaded) ==
            IF loaded.err THEN [err |-> TRUE, reg |-> reg]
            ELSE saveVaultRegistry(reg, loaded.paths, ioW)
    IN  with(loadVaultRegistry(reg, ioR))

registerVault(reg, path, ioR, ioW) ==
    LET add(vaults, abs) ==
            IF abs.err THEN [err |-> TRUE, reg |-> reg]
            ELSE IF \E i \in 1..Len(vaults) : samePath(vaults[i], abs.path)
            THEN [err |-> FALSE, reg |-> reg]
            ELSE saveVaultRegistry(reg, Append(vaults, abs.path), ioW)
        with(loaded) ==
            IF loaded.err THEN [err |-> TRUE, reg |-> reg]
            ELSE add(loaded.paths, Abs(path))
    IN  with(loadVaultRegistry(reg, ioR))

\* unregisterVault saving the paths it loaded, the one to drop among them.
unregisterVaultKeeping(reg, path, ioR, ioW) ==
    LET with(loaded) ==
            IF loaded.err THEN [err |-> TRUE, reg |-> reg]
            ELSE saveVaultRegistry(reg, loaded.paths, ioW)
    IN  with(loadVaultRegistry(reg, ioR))

unregisterVault(reg, path, ioR, ioW) ==
    LET drop(vaults, abs) ==
            IF abs.err THEN [err |-> TRUE, reg |-> reg]
            ELSE saveVaultRegistry(
                     reg, SelectSeq(vaults, LAMBDA v : ~samePath(v, abs.path)), ioW)
        with(loaded) ==
            IF loaded.err THEN [err |-> TRUE, reg |-> reg]
            ELSE drop(loaded.paths, Abs(path))
    IN  with(loadVaultRegistry(reg, ioR))

\* A row of the list widget.
Item(title, path, isDir, mode) ==
    [title |-> title, path |-> path, isDir |-> isDir, mode |-> mode]

\* The three action rows that end the vault list.
ActionRows ==
    << Item(<<"+">>, <<>>, FALSE, "create-vault"),
       Item(<<"+">>, <<>>, FALSE, "open-vault-path"),
       Item(<<"+">>, <<>>, FALSE, "open-vault-explorer") >>

TitleLess(a, b) == StrLess(ToLower(a.title), ToLower(b.title))

\* getVaults without its os.Stat: every registered path is listed and saved.
getVaultsUnchecked(f, reg, ioR, ioW, denied) ==
    LET sorted(dirs) ==
            StableSort(dirs, [i \in 1..Len(dirs) |-> [j \in 1..Len(dirs) |->
                                 TitleLess(dirs[i], dirs[j])]])
        rows(validPaths) ==
            [items |-> sorted([i \in 1..Len(validPaths) |->
                                  Item(Base(validPaths[i]), Abs(validPaths[i]).path,
                                       TRUE, "")]) \o ActionRows,
             reg |-> saveVaultRegistry(reg, validPaths, ioW).reg]
        with(loaded) == rows(IF loaded.err THEN <<>> ELSE loaded.paths)
    IN  with(loadVaultRegistry(reg, ioR))

\* getVaults: the registered paths that are directories (denied: the paths
\* whose os.Stat fails), saved back to the registry, as rows sorted by title.
getVaults(f, reg, ioR, ioW, denied) ==
    LET checked(abs, info) == ~abs.err /\ ~info.err /\ info.isDir
        resolved(abs) == checked(abs, Stat(f, abs.path, abs.path \notin denied))
        valid(p) == resolved(Abs(p))
        sorted(dirs) ==
            StableSort(dirs, [i \in 1..Len(dirs) |-> [j \in 1..Len(dirs) |->
                                 TitleLess(dirs[i], dirs[j])]])
        rows(validPaths) ==
            [items |-> sorted([i \in 1..Len(validPaths) |->
                                  Item(Base(validPaths[i]), Abs(validPaths[i]).path,
                                       TRUE, "")]) \o ActionRows,
             reg |-> saveVaultRegistry(reg, validPaths, ioW).reg]
        with(loaded) ==
            rows(SelectSeq(IF loaded.err THEN <<>> ELSE loaded.paths, valid))
    IN  with(loadVaultRegistry(reg, ioR))

---------------------------------------------------------------------------
(* The session: Model and its handlers. A handler is an operator from the  *)
(* Model, the disk, the registry file and the outcomes of its I/O calls    *)
(* (TRUE: the call does not fail for a reason outside the model's disk) to *)
(* the Model it returns, the disk and the registry file it leaves, and     *)
(* whether it took one of its error branches. The text of the input widget *)
(* when Enter is pressed is an input of the handler.                       *)

stateVaultSelect == "VaultSelect"
stateVaultCreate == "VaultCreate"
stateVaultOpenPath == "VaultOpenPath"
stateFileList == "FileList"
stateFileCreate == "FileCreate"
stateDirCreate == "DirCreate"
stateEditor == "Editor"
stateConfirmDelete == "ConfirmDelete"

\* The status messages, by kind: "Error: " and the error of an I/O call;
\* "Error: path escapes vault"; a rejected input ("... cannot be empty",
\* "Invalid file name: ..."); a success ("Vault selected: ...", "File
\* created: ...", "Saved: ...", "Deleted: ..."); "Vault selection canceled";
\* "Vault created/deleted, but registry update failed: ...".
statusError == "error"
statusEscape == "escape"
statusInvalid == "invalid"
statusOk == "ok"
statusCanceled == "canceled"
statusPartial == "partial"

\* The user's home directory, where vaults are created.
vaultStorageRoot == <<"/", "h">>

\* pending = nil
NoPending == [set |-> FALSE, path |-> <<>>, isDir |-> FALSE, isVault |-> FALSE]
deleteTarget(path, isDir, isVault) ==
    [set |-> TRUE, path |-> path, isDir |-> isDir, isVault |-> isVault]

\* SelectedItem() = nil
NoItem == Item(<<>>, <<>>, FALSE, "nil")

Res(mm, f, reg, failed) == [m |-> mm, fs |-> f, reg |-> reg, failed |-> failed]

\* The order of refreshFileList's sort: directories first, then by title.
EntryLess(a, b) ==
    IF a.isDir # b.isDir THEN a.isDir
    ELSE StrLess(ToLower(a.title), ToLower(b.title))

refreshFileList(mm, f, io) ==
    LET entry(file) ==
            Item(IF file.isDir THEN file.name \o <<Sep>> ELSE file.name,
                 Join(mm.current, file.name), file.isDir, "")
        up == IF ~samePath(mm.current, mm.vault)
              THEN <<Item(DotDot, Dir(mm.current), TRUE, "up")>>
              ELSE <<>>
        sorted(entries) ==
            StableSort(entries, [i \in 1..Len(entries) |-> [j \in 1..Len(entries) |->
                                    EntryLess(entries[i], entries[j])]])
        listed(files) ==
            IF files.err THEN [mm EXCEPT !.status = statusError]
            ELSE [mm EXCEPT !.list =
                     up \o sorted([i \in 1..Len(files.files) |-> entry(files.files[i])])]
    IN  listed(ReadDir(f, mm.current, io))

\* refreshFileList took its error branch.
refreshFailed(mm, f, io) == ~io \/ ~IsDirAt(f, mm.current)

\* A handler that ends in refreshFileList.
refreshed(mm, f, reg, io) ==
    Res(refreshFileList(mm, f, io), f, reg, refreshFailed(mm, f, io))

\* enterPrompt without its note of the state it is called in.
enterPromptForgetting(mm, st) ==
    [mm EXCEPT !.state = st]

enterPrompt(mm, st) ==
    [mm EXCEPT !.lastList = mm.state, !.state = st]

openVaultPath(mm, f, reg, rawPath, ioStat, ioDir) ==
    LET open(abs, info) ==
            IF abs.err \/ info.err \/ ~info.isDir
            THEN Res([mm EXCEPT !.status = statusError], f, reg, TRUE)
            ELSE refreshed([mm EXCEPT !.vault = abs.path, !.current = abs.path,
                                      !.state = stateFileList, !.status = statusOk],
                           f, reg, ioDir)
        resolved(abs) == open(abs, Stat(f, abs.path, ioStat))
        trimmed(cleanPath) ==
            IF cleanPath = <<>>
            THEN Res([mm EXCEPT !.status = statusInvalid], f, reg, TRUE)
            ELSE resolved(Abs(cleanPath))
    IN  trimmed(Trim(TrimSpace(rawPath), {"\"", "'"}))

\* pick: what pickFolderInExplorer returns, "error", "canceled" or a path.
openVaultByExplorer(mm, f, reg, pick, ioStat, ioDir) ==
    IF pick = "canceled"
    THEN Res([mm EXCEPT !.status = statusCanceled], f, reg, FALSE)
    ELSE IF pick = "error"
    THEN Res([mm EXCEPT !.status = statusError], f, reg, TRUE)
    ELSE openVaultPath(mm, f, reg, pick, ioStat, ioDir)

\* goParent without its checks: the parent is entered and listed.
goParentUnchecked(mm, f, reg, io) ==
    refreshed([mm EXCEPT !.current = Dir(mm.current)], f, reg, io)

\* goParent, as a handler.
goParent(mm, f, reg, io) ==
    LET to(parent) ==
            IF insideVault(mm.vault, parent)
            THEN refreshed([mm EXCEPT !.current = parent], f, reg, io)
            ELSE Res(mm, f, reg, FALSE)
    IN  IF samePath(mm.current, mm.vault) THEN Res(mm, f, reg, FALSE)
        ELSE to(Dir(mm.current))

\* safePath without its containment check.
safePathUnguarded(mm, name) == [err |-> FALSE, path |-> Join(mm.current, name)]

safePath(mm, name) ==
    LET guarded(target) ==
            IF ~insideVault(mm.vault, target) THEN [err |-> TRUE, path |-> <<>>]
            ELSE [err |-> FALSE, path |-> target]
    IN  guarded(Join(mm.current, name))

\* isAlnumName letting the dot of an extension through.
isAlnumNameOrDot(s) == \A i \in 1..Len(s) : IsLetter(s[i]) \/ IsDigit(s[i]) \/ s[i] = "."

isAlnumName(s) == \A i \in 1..Len(s) : IsLetter(s[i]) \/ IsDigit(s[i])

\* handleEnter in stateVaultSelect; sel is the selected row.
handleEnterVaultSelect(mm, f, reg, sel, pick, ioStat, ioDir) ==
    IF sel = NoItem THEN Res(mm, f, reg, FALSE)
    ELSE IF sel.mode = "create-vault"
    THEN Res(enterPrompt(mm, stateVaultCreate), f, reg, FALSE)
    ELSE IF sel.mode = "open-vault-path"
    THEN Res(enterPrompt(mm, stateVaultOpenPath), f, reg, FALSE)
    ELSE IF sel.mode = "open-vault-explorer"
    THEN openVaultByExplorer(mm, f, reg, pick, ioStat, ioDir)
    ELSE refreshed([mm EXCEPT !.vault = sel.path, !.current = sel.path,
                              !.state = stateFileList, !.status = statusOk],
                   f, reg, ioDir)

\* handleEnter in stateFileList opening the editor without noting the file.
handleEnterFileListForgetting(mm, f, reg, sel, ioRead, ioDir) ==
    LET open(content) ==
            IF content.err
            THEN Res([mm EXCEPT !.status = statusError], f, reg, TRUE)
            ELSE Res([mm EXCEPT !.textarea = content.content,
                                !.state = stateEditor], f, reg, FALSE)
    IN  IF sel = NoItem THEN Res(mm, f, reg, FALSE)
        ELSE IF sel.mode = "up" THEN goParent(mm, f, reg, ioDir)
        ELSE IF sel.isDir THEN refreshed([mm EXCEPT !.current = sel.path], f, reg, ioDir)
        ELSE open(ReadFile(f, sel.path, ioRead))

\* handleEnter in stateFileList.
handleEnterFileList(mm, f, reg, sel, ioRead, ioDir) ==
    LET open(content) ==
            IF content.err
            THEN Res([mm EXCEPT !.status = statusError], f, reg, TRUE)
            ELSE Res([mm EXCEPT !.editing = sel.path, !.textarea = content.content,
                                !.state = stateEditor], f, reg, FALSE)
    IN  IF sel = NoItem THEN Res(mm, f, reg, FALSE)
        ELSE IF sel.mode = "up" THEN goParent(mm, f, reg, ioDir)
        ELSE IF sel.isDir THEN refreshed([mm EXCEPT !.current = sel.path], f, reg, ioDir)
        ELSE open(ReadFile(f, sel.path, ioRead))

\* handleEnter in stateVaultCreate, opening the vault whether or not its
\* registration succeeded.
handleEnterVaultCreateOpening(mm, f, reg, input, ioMk, ioR, ioW, ioDir) ==
    LET open(abs, made, registered) ==
            refreshed([mm EXCEPT !.vault = abs.path, !.current = abs.path,
                                 !.state = stateFileList, !.status = statusOk],
                      made.fs, registered.reg, ioDir)
        register(abs, made) ==
            IF abs.err
            THEN Res([mm EXCEPT !.status = statusError], made.fs, reg, TRUE)
            ELSE open(abs, made, registerVault(reg, abs.path, ioR, ioW))
        create(path, made) ==
            IF made.err
            THEN Res([mm EXCEPT !.status = statusError], f, reg, TRUE)
            ELSE register(Abs(path), made)
        at(path) == create(path, Mkdir(f, path, ioMk))
        named(name) ==
            IF name = <<>>
            THEN Res([mm EXCEPT !.status = statusInvalid], f, reg, TRUE)
            ELSE at(Join(vaultStorageRoot, name))
    IN  named(TrimSpace(input))

\* handleEnter in stateVaultCreate.
handleEnterVaultCreate(mm, f, reg, input, ioMk, ioR, ioW, ioDir) ==
    LET open(abs, made, registered) ==
            IF registered.err
            THEN Res([mm EXCEPT !.status = statusPartial], made.fs, reg, TRUE)
            ELSE refreshed([mm EXCEPT !.vault = abs.path, !.current = abs.path,
                                      !.state = stateFileList, !.status = statusOk],
                           made.fs, registered.reg, ioDir)
        register(abs, made) ==
            IF abs.err
            THEN Res([mm EXCEPT !.status = statusError], made.fs, reg, TRUE)
            ELSE open(abs, made, registerVault(reg, abs.path, ioR, ioW))
        create(path, made) ==
            IF made.err
            THEN Res([mm EXCEPT !.status = statusError], f, reg, TRUE)
            ELSE register(Abs(path), made)
        at(path) == create(path, Mkdir(f, path, ioMk))
        named(name) ==
            IF name = <<>>
            THEN Res([mm EXCEPT !.status = statusInvalid], f, reg, TRUE)
            ELSE at(Join(vaultStorageRoot, name))
    IN  named(TrimSpace(input))

\* handleEnter in stateFileCreate.
handleEnterFileCreate(mm, f, reg, input, ioOpen, ioDir) ==
    LET create(file) ==
            IF file.err
            THEN Res([mm EXCEPT !.status = statusError], f, reg, TRUE)
            ELSE refreshed([mm EXCEPT !.state = stateFileList, !.status = statusOk],
                           file.fs, reg, ioDir)
        at(path) ==
            IF path.err
            THEN Res([mm EXCEPT !.status = statusEscape], f, reg, TRUE)
            ELSE create(OpenFileExcl(f, path.path, ioOpen))
        named(baseName) ==
            IF baseName = <<>>
            THEN Res([mm EXCEPT !.status = statusInvalid], f, reg, TRUE)
            ELSE IF ~isAlnumName(baseName)
            THEN Res([mm EXCEPT !.status = statusInvalid], f, reg, TRUE)
            ELSE at(safePath(mm, baseName \o <<".", "m", "d">>))
    IN  named(TrimSpace(input))

\* handleEnter in stateDirCreate.
handleEnterDirCreate(mm, f, reg, input, ioMk, ioDir) ==
    LET create(made) ==
            IF made.err
            THEN Res([mm EXCEPT !.status = statusError], f, reg, TRUE)
            ELSE refreshed([mm EXCEPT !.state = stateFileList, !.status = statusOk],
                           made.fs, reg, ioDir)
        at(path) ==
            IF path.err
            THEN Res([mm EXCEPT !.status = statusEscape], f, reg, TRUE)
            ELSE create(MkdirAll(f, path.path, ioMk))
        named(name) ==
            IF name = <<>>
            THEN Res([mm EXCEPT !.status = statusInvalid], f, reg, TRUE)
            ELSE at(safePath(mm, name))
    IN  named(TrimSpace(input))

\* confirmDelete: ioRm is the outcome of the removal, ioR1 and ioW1 those of
\* unregisterVault's read and write, ioR2, ioW2 and denied those of
\* getVaults, ioDir that of refreshFileList.
confirmDelete(mm, f, reg, ioRm, ioR1, ioW1, ioR2, ioW2, denied, ioDir) ==
    LET target == mm.pending
        back(r) == [r EXCEPT !.m.pending = NoPending, !.m.state = mm.lastList]
        relisted(removed, regErr, vaults) ==
            Res([mm EXCEPT !.status = IF regErr.err THEN statusPartial ELSE statusOk,
                           !.list = vaults.items],
                removed.fs, vaults.reg, regErr.err)
        unregistered(removed, regErr) ==
            relisted(removed, regErr,
                     getVaults(removed.fs, regErr.reg, ioR2, ioW2, denied))
        done(removed) ==
            IF removed.err
            THEN Res([mm EXCEPT !.status = statusError], f, reg, TRUE)
            ELSE IF target.isVault
            THEN unregistered(removed, unregisterVault(reg, target.path, ioR1, ioW1))
            ELSE refreshed([mm EXCEPT !.status = statusOk], removed.fs, reg, ioDir)
    IN  IF ~target.set
        THEN Res([mm EXCEPT !.state = mm.lastList], f, reg, FALSE)
        ELSE back(done(IF target.isDir THEN RemoveAll(f, target.path, ioRm)
                       ELSE Remove(f, target.path, ioRm)))

\* ctrl+s in stateEditor.
saveFile(mm, f, reg, io) ==
    LET saved(written) ==
            IF written.err
            THEN Res([mm EXCEPT !.status = statusError], f, reg, TRUE)
            ELSE Res([mm EXCEPT !.status = statusOk], written.fs, reg, FALSE)
    IN  saved(WriteFile(f, mm.editing, mm.textarea, io))

\* ctrl+x in stateVaultSelect.
stageVaultDelete(mm, sel) ==
    IF sel = NoItem THEN mm
    ELSE IF sel.mode # "" THEN mm
    ELSE [mm EXCEPT !.pending = deleteTarget(sel.path, TRUE, TRUE),
                    !.lastList = stateVaultSelect, !.state = stateConfirmDelete]

\* ctrl+x in stateFileList.
stageEntryDelete(mm, sel) ==
    IF sel = NoItem THEN mm
    ELSE IF sel.mode = "up" THEN mm
    ELSE [mm EXCEPT !.pending = deleteTarget(sel.path, sel.isDir, FALSE),
                    !.lastList = stateFileList, !.state = stateConfirmDelete]

---------------------------------------------------------------------------
(* The inputs and the bounds                                               *)

\* The directories that vaults are made of, and what may be there at start.
Root == <<"/">>
VaultA == <<"/", "h", "/", "a">>
VaultV == <<"/", "h", "/", "V">>
VaultDirs == {VaultA, VaultV}

\* The most files and directories inside the vaults.
MaxEntries == 1

Entries(f) == DOMAIN f \ ({Root, vaultStorageRoot} \cup VaultDirs)

\* What the user types at the prompts and in the editor.
VaultNames == { <<"a">>, <<"V">>, <<" ">> }
PathInputs == { VaultA, <<"'">> \o VaultV \o <<"'">>, <<" ">>, <<"/", "n">> }
FileNames == { <<"n", "1">>, <<"n", "1", " ">>, <<"n", " ", "1">>, <<"n", ".", "1">>,
               <<".", ".", "/", "n">>, <<" ">> }
DirNames == { <<"d">>, <<".", ".", "/", "q">>, <<" ">> }
Texts == { <<>>, <<"m">> }
\* What the folder dialog returns.
Picks == {"error", "canceled", VaultA}

\* The outcomes of a handler's call and of the listing that follows it: no
\* listing follows a call that failed.
CallThenList == {<<FALSE, TRUE>>, <<TRUE, FALSE>>, <<TRUE, TRUE>>}

\* The selected row: any row of the list, or none.
Rows(mm) == {mm.list[i] : i \in 1..Len(mm.list)} \cup {NoItem}

---------------------------------------------------------------------------
(* The state machine                                                       *)

vars == <<m, fs, regFile, cwd, probe>>

NoProbe == [kind |-> "none"]

\* The disk a session starts on: the home directory with one directory.
InitDisks ==
    {[p \in {Root, vaultStorageRoot, VaultV} |-> DirNode]}

\* The registry file a session starts on: the one directory registered.
InitRegs == {Doc(<<VaultV>>)}

\* The outcomes of the registry's I/O calls: Spec is the session on a
\* registry whose storage does not fail, SpecReg (below) is the vault list
\* on one that may.
RegOk == {TRUE}
NoneDenied == {{}}

\* initialModel: the vault list is loaded (and the registry saved back).
initialModel(vaults) ==
    [state |-> stateVaultSelect, list |-> vaults.items, textarea |-> <<>>,
     vault |-> <<>>, current |-> <<>>, editing |-> <<>>,
     lastList |-> stateVaultSelect, status |-> "", pending |-> NoPending]

InitWith(disks, regs, RegIO, Denied) ==
    /\ cwd = vaultStorageRoot
    /\ probe = NoProbe
    /\ \E disk \in disks, reg \in regs, ioR \in RegIO, ioW \in RegIO, denied \in Denied :
          \E vaults \in {getVaults(disk, reg, ioR, ioW, denied)} :
              /\ m = initialModel(vaults)
              /\ fs = disk
              /\ regFile = vaults.reg

Init == InitWith(InitDisks, InitRegs, RegOk, NoneDenied)

\* One intent handled: the Model, the disk and the registry the handler leaves.
Step(r) ==
    \E res \in {r} :
        /\ Cardinality(Entries(res.fs)) <= MaxEntries
        /\ m' = res.m
        /\ fs' = res.fs
        /\ regFile' = res.reg
        /\ UNCHANGED <<cwd, probe>>

\* esc in stateEditor
escEditor(mm, f, reg, ioDir) ==
    refreshed([mm EXCEPT !.state = stateFileList], f, reg, ioDir)

\* A cancel that always returns to the file list.
cancelToFileList(mm, f, reg) ==
    Res([mm EXCEPT !.state = stateFileList, !.pending = NoPending], f, reg, FALSE)

\* A cancel that always returns to the vault list.
cancelToVaultSelect(mm, f, reg) ==
    Res([mm EXCEPT !.state = stateVaultSelect, !.pending = NoPending], f, reg, FALSE)

\* esc at a prompt or in stateConfirmDelete, "n" in stateConfirmDelete
cancel(mm, f, reg) ==
    Res([mm EXCEPT !.state = mm.lastList, !.pending = NoPending], f, reg, FALSE)

EscEditor ==
    /\ m.state = stateEditor
    /\ \E ioDir \in BOOLEAN : Step(escEditor(m, fs, regFile, ioDir))

EscPrompt ==
    /\ m.state \in {stateVaultCreate, stateVaultOpenPath, stateFileCreate,
                    stateDirCreate, stateConfirmDelete}
    /\ Step(cancel(m, fs, regFile))

KeyN ==
    /\ m.state = stateConfirmDelete
    /\ Step(cancel(m, fs, regFile))

\* "y" or "enter" in stateConfirmDelete, of a vault.
ConfirmVault(ioRm, ioR1, ioW1, ioR2, ioW2, denied) ==
    /\ m.state = stateConfirmDelete
    /\ m.pending.isVault
    /\ Step(confirmDelete(m, fs, regFile, ioRm, ioR1, ioW1, ioR2, ioW2, denied, TRUE))

\* "y" or "enter" in stateConfirmDelete, of an entry of a vault.
ConfirmEntry(ioRm, ioDir) ==
    /\ m.state = stateConfirmDelete
    /\ ~m.pending.isVault
    /\ Step(confirmDelete(m, fs, regFile, ioRm, TRUE, TRUE, TRUE, TRUE, {}, ioDir))

KeyY ==
    \/ \E ioRm \in BOOLEAN : ConfirmVault(ioRm, TRUE, TRUE, TRUE, TRUE, {})
    \/ \E io \in CallThenList : ConfirmEntry(io[1], io[2])

CtrlS ==
    /\ m.state = stateEditor
    /\ \E io \in BOOLEAN : Step(saveFile(m, fs, regFile, io))

\* ctrl+n in stateVaultSelect
NewVault ==
    /\ m.state = stateVaultSelect
    /\ Step(Res(enterPrompt(m, stateVaultCreate), fs, regFile, FALSE))

\* ctrl+n in stateFileList
NewFile ==
    /\ m.state = stateFileList
    /\ Step(Res(enterPrompt(m, stateFileCreate), fs, regFile, FALSE))

CtrlN == NewVault \/ NewFile

CtrlO ==
    /\ m.state = stateVaultSelect
    /\ Step(Res(enterPrompt(m, stateVaultOpenPath), fs, regFile, FALSE))

CtrlP ==
    /\ m.state = stateVaultSelect
    /\ \E pick \in Picks, io \in CallThenList :
          Step(openVaultByExplorer(m, fs, regFile, pick, io[1], io[2]))

CtrlD ==
    /\ m.state = stateFileList
    /\ Step(Res(enterPrompt(m, stateDirCreate), fs, regFile, FALSE))

\* ctrl+x in stateVaultSelect
DeleteVault ==
    /\ m.state = stateVaultSelect
    /\ \E sel \in Rows(m) :
          Step(Res(stageVaultDelete(m, sel), fs, regFile, FALSE))

\* ctrl+x in stateFileList
DeleteEntry ==
    /\ m.state = stateFileList
    /\ \E sel \in Rows(m) :
          Step(Res(stageEntryDelete(m, sel), fs, regFile, FALSE))

CtrlX == DeleteVault \/ DeleteEntry

Backspace ==
    /\ m.state = stateFileList
    /\ \E ioDir \in BOOLEAN :
          Step(goParent(m, fs, regFile, ioDir))

\* enter in stateVaultSelect on the row sel
SelectVault(sel, pick, ioStat, ioDir) ==
    /\ m.state = stateVaultSelect
    /\ Step(handleEnterVaultSelect(m, fs, regFile, sel, pick, ioStat, ioDir))

\* enter in stateFileList on the row sel
SelectEntry(sel, ioRead, ioDir) ==
    /\ m.state = stateFileList
    /\ Step(handleEnterFileList(m, fs, regFile, sel, ioRead, ioDir))

\* enter at the prompts, input being the text of the input widget
SubmitVaultCreate(input, ioMk, ioR, ioW, ioDir) ==
    /\ m.state = stateVaultCreate
    /\ Step(handleEnterVaultCreate(m, fs, regFile, input, ioMk, ioR, ioW, ioDir))

SubmitVaultOpenPath(input, ioStat, ioDir) ==
    /\ m.state = stateVaultOpenPath
    /\ Step(openVaultPath(m, fs, regFile, input, ioStat, ioDir))

SubmitFileCreate(input, ioOpen, ioDir) ==
    /\ m.state = stateFileCreate
    /\ Step(handleEnterFileCreate(m, fs, regFile, input, ioOpen, ioDir))

SubmitDirCreate(input, ioMk, ioDir) ==
    /\ m.state = stateDirCreate
    /\ Step(handleEnterDirCreate(m, fs, regFile, input, ioMk, ioDir))

\* A row is a file, which is read, or a directory, which is listed: one
\* call, with one outcome.
Enter ==
    \/ \E sel \in Rows(m), pick \in Picks, io \in CallThenList :
          SelectVault(sel, pick, io[1], io[2])
    \/ \E sel \in Rows(m), io \in BOOLEAN :
          SelectEntry(sel, io, io)
    \/ \E input \in VaultNames, io \in CallThenList :
          SubmitVaultCreate(input, io[1], TRUE, TRUE, io[2])
    \/ \E input \in PathInputs, io \in CallThenList :
          SubmitVaultOpenPath(input, io[1], io[2])
    \/ \E input \in FileNames, io \in CallThenList :
          SubmitFileCreate(input, io[1], io[2])
    \/ \E input \in DirNames, io \in CallThenList :
          SubmitDirCreate(input, io[1], io[2])

\* Any other key in the editor goes to the text area.
EditText ==
    /\ m.state = stateEditor
    /\ \E t \in Texts : Step(Res([m EXCEPT !.textarea = t], fs, regFile, FALSE))

Next ==
    \/ EscEditor
    \/ EscPrompt
    \/ KeyN
    \/ KeyY
    \/ CtrlS
    \/ CtrlN
    \/ CtrlO
    \/ CtrlP
    \/ CtrlD
    \/ CtrlX
    \/ Backspace
    \/ Enter
    \/ EditText

Spec == Init /\ [][Next]_vars

---------------------------------------------------------------------------
(* The vault list on a registry whose storage may fail: the intents of the *)
(* vault list (create, select, open, delete a vault), every outcome of the *)
(* registry's reads and writes, and the program run again.                 *)

\* The program is started again: initialModel on the disk and the registry
\* file the last run left.
Restart(ioR, ioW, denied) ==
    \E vaults \in {getVaults(fs, regFile, ioR, ioW, denied)} :
        /\ m' = initialModel(vaults)
        /\ regFile' = vaults.reg
        /\ UNCHANGED <<fs, cwd, probe>>

RegDisks ==
    {[p \in {Root, vaultStorageRoot, VaultV} |-> DirNode],
     [p \in {Root, vaultStorageRoot, VaultA, VaultV} |-> DirNode]}

\* The registry files a run may find: none, one that is no JSON, and the
\* ones the program writes.
RegFiles == {NoFile, Malformed, Doc(<<>>), Doc(<<VaultV>>), Doc(<<VaultA, VaultV>>)}

InitReg == InitWith(RegDisks, RegFiles, BOOLEAN, SUBSET VaultDirs)

\* A vault directory is removed from the disk by another program; probe
\* keeps which one, and whether the registry held it then.
RemovedOutside ==
    \E p \in VaultDirs :
        /\ p \in DOMAIN fs
        /\ fs' = RemoveAll(fs, p, TRUE).fs
        /\ probe' = [kind |-> "removed", path |-> p,
                     registered |-> \E i \in 1..Len(regFile.vaults) : regFile.vaults[i] = p]
        /\ UNCHANGED <<m, regFile, cwd>>

NextReg ==
    \/ RemovedOutside
    \/ \E ioR \in BOOLEAN, ioW \in BOOLEAN, denied \in SUBSET VaultDirs :
          Restart(ioR, ioW, denied)
    \/ NewVault
    \/ CtrlO
    \/ EscPrompt
    \/ KeyN
    \/ DeleteVault
    \/ \E sel \in Rows(m), ioDir \in BOOLEAN : SelectVault(sel, "canceled", TRUE, ioDir)
    \/ \E input \in PathInputs, io \in CallThenList :
          SubmitVaultOpenPath(input, io[1], io[2])
    \/ \E input \in VaultNames, ioMk \in BOOLEAN, ioR \in BOOLEAN, ioW \in BOOLEAN,
          ioDir \in BOOLEAN :
          SubmitVaultCreate(input, ioMk, ioR, ioW, ioDir)
    \/ \E ioRm \in BOOLEAN, ioR1 \in BOOLEAN, ioW1 \in BOOLEAN, ioR2 \in BOOLEAN,
          ioW2 \in BOOLEAN, denied \in SUBSET VaultDirs :
          ConfirmVault(ioRm, ioR1, ioW1, ioR2, ioW2, denied)

SpecReg == InitReg /\ [][NextReg]_vars

---------------------------------------------------------------------------
(* The containment guard on its own: insideVault applied to a vault root   *)
(* and a path given by their elements and the way each is written.         *)

\* The session stands still while a function is applied on its own.
Idle ==
    /\ m = initialModel([items |-> ActionRows])
    /\ fs = [p \in {Root} |-> DirNode]
    /\ regFile = NoFile

\* Element names: a name, a name it is a string prefix of, and a name
\* that begins with two dots.
GuardNames == { <<"N">>, <<"N", "o">>, <<".", ".", "N">> }

\* The most elements of a path given to the guard.
MaxGuardElems == 2

GuardPaths == UNION {[1..n -> GuardNames] : n \in 0..MaxGuardElems}

\* The working directory paths are relative to.
GuardCwd == <<"/", "N">>

\* The ways a path is written: rooted; with a trailing separator; through
\* a directory and back ("/N/.." in front); relative to GuardCwd.
Styles(elems) ==
    {"rooted", "trailing", "detour"}
        \cup (IF elems # <<>> /\ elems[1] = <<"N">> THEN {"relative"} ELSE {})

Written(elems, style) ==
    CASE style = "rooted" -> <<Sep>> \o JoinSep(elems)
      [] style = "trailing" -> <<Sep>> \o JoinSep(elems) \o <<Sep>>
      [] style = "detour" -> <<Sep, "N", Sep, ".", ".", Sep>> \o JoinSep(elems)
      [] style = "relative" -> IF Len(elems) = 1 THEN Dot ELSE JoinSep(Tail(elems))

InitGuard ==
    /\ Idle
    /\ cwd \in {GuardCwd, <<>>}
    /\ \E root \in GuardPaths, path \in GuardPaths :
          \E rootStyle \in Styles(root), pathStyle \in Styles(path) :
              probe = [kind |-> "guard", root |-> root, path |-> path,
                       rootStyle |-> rootStyle, pathStyle |-> pathStyle,
                       done |-> FALSE, inside |-> FALSE]

GuardCheck ==
    /\ probe.kind = "guard"
    /\ ~probe.done
    /\ probe' = [probe EXCEPT
                    !.done = TRUE,
                    !.inside = insideVault(Written(probe.root, probe.rootStyle),
                                           Written(probe.path, probe.pathStyle))]
    /\ UNCHANGED <<m, fs, regFile, cwd>>

NextGuard == GuardCheck

SpecGuard == InitGuard /\ [][NextGuard]_vars

---------------------------------------------------------------------------
(* The registry on its own: a sequence of paths saved and loaded, and the  *)
(* result saved and loaded again.                                          *)

\* Entries as a registry may hold them: resolved, padded with blanks, with
\* a trailing separator, blank, relative, and differing in case only.
RawPaths ==
    { VaultA, VaultV, <<" ">> \o VaultA \o <<" ">>, VaultA \o <<Sep>>, <<" ">>,
      <<"a">>, <<"/", "h", "/", "v">> }

\* The most entries of the sequence saved.
MaxRegLen == 3

InitRoundTrip ==
    /\ Idle
    /\ cwd \in {vaultStorageRoot, <<>>}
    /\ \E X \in UNION {[1..n -> RawPaths] : n \in 0..MaxRegLen} :
          probe = [kind |-> "roundtrip", X |-> X, step |-> 0,
                   first |-> <<>>, second |-> <<>>]

\* save(X) then load()
SaveLoad ==
    /\ probe.kind = "roundtrip"
    /\ probe.step = 0
    /\ \E saved \in {saveVaultRegistry(regFile, probe.X, TRUE)} :
          /\ regFile' = saved.reg
          /\ probe' = [probe EXCEPT !.step = 1,
                                    !.first = loadVaultRegistry(saved.reg, TRUE).paths]
    /\ UNCHANGED <<m, fs, cwd>>

\* the result saved and loaded again
SaveLoadAgain ==
    /\ probe.kind = "roundtrip"
    /\ probe.step = 1
    /\ \E saved \in {saveVaultRegistry(regFile, probe.first, TRUE)} :
          /\ regFile' = saved.reg
          /\ probe' = [probe EXCEPT !.step = 2,
                                    !.second = loadVaultRegistry(saved.reg, TRUE).paths]
    /\ UNCHANGED <<m, fs, cwd>>

NextRoundTrip == SaveLoad \/ SaveLoadAgain

SpecRoundTrip == InitRoundTrip /\ [][NextRoundTrip]_vars

---------------------------------------------------------------------------
(* register and unregister on their own: applied, in any order and with    *)
(* any outcome of the registry's reads and writes, to a registry file that *)
(* holds any sequence of entries, or is absent or malformed.               *)

\* The paths given to register and unregister: resolved, relative, and
\* with a trailing separator.
OpPaths == { VaultA, VaultV, <<"a">>, VaultV \o <<Sep>> }

\* Entries as the registry file may hold them at the start: resolved,
\* padded with blanks, relative, and blank.
OpEntries == { VaultV, <<" ">> \o VaultA \o <<" ">>, <<"a">>, <<" ">> }

InitRegOps ==
    /\ m = initialModel([items |-> ActionRows])
    /\ fs = [p \in {Root} |-> DirNode]
    /\ cwd \in {vaultStorageRoot, <<>>}
    /\ regFile \in {NoFile, Malformed}
                      \cup {Doc(X) : X \in UNION {[1..n -> OpEntries] : n \in 0..MaxRegLen}}
    /\ probe = [kind |-> "op", op |-> "none", path |-> <<>>, before |-> regFile,
                err |-> FALSE]

\* registerVault(path)
Register ==
    /\ probe.kind = "op"
    /\ \E path \in OpPaths, ioR \in BOOLEAN, ioW \in BOOLEAN :
          \E done \in {registerVault(regFile, path, ioR, ioW)} :
              /\ regFile' = done.reg
              /\ probe' = [kind |-> "op", op |-> "register", path |-> path,
                           before |-> regFile, err |-> done.err]
    /\ UNCHANGED <<m, fs, cwd>>

\* unregisterVault(path)
Unregister ==
    /\ probe.kind = "op"
    /\ \E path \in OpPaths, ioR \in BOOLEAN, ioW \in BOOLEAN :
          \E done \in {unregisterVault(regFile, path, ioR, ioW)} :
              /\ regFile' = done.reg
              /\ probe' = [kind |-> "op", op |-> "unregister", path |-> path,
                           before |-> regFile, err |-> done.err]
    /\ UNCHANGED <<m, fs, cwd>>

NextRegOps == Register \/ Unregister

SpecRegOps == InitRegOps /\ [][NextRegOps]_vars

---------------------------------------------------------------------------
(* The listing on its own: the program is started on a registered vault    *)
(* that holds any few files and directories, and the vault and its         *)
(* directories are listed.                                                 *)

\* Entry names: a name, the name followed by a dot, a blank or a digit and
\* more, and a name in capitals.
ListNames ==
    { <<"a">>, <<"a", ".", "d">>, <<"a", " ", "d">>, <<"a", "1">>, <<"N">> }

\* The most entries of the vault listed.
MaxListed == 3

\* The vault with the entries of kinds, a function from names to whether
\* the entry is a directory.
ListDisk(kinds) ==
    [p \in {Root, vaultStorageRoot, VaultV}
              \cup {VaultV \o <<Sep>> \o n : n \in DOMAIN kinds} |->
        IF p \in {Root, vaultStorageRoot, VaultV} THEN DirNode
        ELSE IF kinds[SubSeq(p, Len(VaultV) + 2, Len(p))] THEN DirNode
        ELSE FileNode(<<>>)]

ListDisks ==
    UNION {{ListDisk(kinds) : kinds \in [S -> BOOLEAN]} :
              S \in {T \in SUBSET ListNames : Cardinality(T) <= MaxListed}}

InitList == InitWith(ListDisks, InitRegs, RegOk, NoneDenied)

\* One intent handled on a disk of any size.
StepList(r) ==
    \E res \in {r} :
        /\ m' = res.m
        /\ fs' = res.fs
        /\ regFile' = res.reg
        /\ UNCHANGED <<cwd, probe>>

\* enter in stateVaultSelect on the row of a vault
ListVault ==
    /\ m.state = stateVaultSelect
    /\ \E sel \in Rows(m), ioDir \in BOOLEAN :
          /\ sel.mode = ""
          /\ StepList(handleEnterVaultSelect(m, fs, regFile, sel, "canceled", TRUE, ioDir))

\* enter in stateFileList on any row
ListEntry ==
    /\ m.state = stateFileList
    /\ \E sel \in Rows(m), io \in BOOLEAN :
          StepList(handleEnterFileList(m, fs, regFile, sel, io, io))

NextList == ListVault \/ ListEntry

SpecList == InitList /\ [][NextList]_vars

---------------------------------------------------------------------------
(* Properties of the session                                               *)

\* The path p is root or lies below it (both absolute and clean): the
\* elements of root begin the elements of p.
IsWithin(root, p) ==
    /\ Len(Elems(root)) <= Len(Elems(p))
    /\ SubSeq(Elems(p), 1, Len(Elems(root))) = Elems(root)

\* The session is inside a vault: one of the in-vault states, or the
\* confirmation of a deletion asked for in the file list.
InVault ==
    \/ m.state \in {stateFileList, stateFileCreate, stateDirCreate, stateEditor}
    \/ m.state = stateConfirmDelete /\ m.lastList = stateFileList

\* The paths whose node differs between two disks.
Changed(f, g) ==
    {p \in DOMAIN f \cup DOMAIN g :
        \/ (p \in DOMAIN f) # (p \in DOMAIN g)
        \/ p \in DOMAIN f /\ p \in DOMAIN g /\ f[p] # g[p]}

\* C1: in every in-vault state the current directory is the vault root or
\* one of its descendants.
C1_CurrentInsideVault == InVault => IsWithin(m.vault, m.current)

\* C2: every step taken inside a vault changes the disk only at paths
\* inside the active vault.
C2_MutationsInsideVault ==
    [][InVault => \A p \in Changed(fs, fs') : IsWithin(m.vault, p)]_vars

\* What the handler of each mutating intent returns in the current state,
\* for every input and every outcome of its I/O calls: selecting, opening
\* or creating a vault; opening a file, entering a directory or its parent;
\* creating a file or a directory; saving; deleting.
Outcomes ==
    CASE m.state = stateVaultSelect ->
           {handleEnterVaultSelect(m, fs, regFile, sel, pick, io[1], io[2]) :
               sel \in Rows(m), pick \in Picks, io \in CallThenList}
      [] m.state = stateFileList ->
           {handleEnterFileList(m, fs, regFile, sel, io, io) :
               sel \in Rows(m), io \in BOOLEAN}
           \cup {goParent(m, fs, regFile, ioDir) : ioDir \in BOOLEAN}
      [] m.state = stateVaultCreate ->
           {handleEnterVaultCreate(m, fs, regFile, input, io[1], TRUE, TRUE, io[2]) :
               input \in VaultNames, io \in CallThenList}
      [] m.state = stateVaultOpenPath ->
           {openVaultPath(m, fs, regFile, input, io[1], io[2]) :
               input \in PathInputs, io \in CallThenList}
      [] m.state = stateFileCreate ->
           {handleEnterFileCreate(m, fs, regFile, input, io[1], io[2]) :
               input \in FileNames, io \in CallThenList}
      [] m.state = stateDirCreate ->
           {handleEnterDirCreate(m, fs, regFile, input, io[1], io[2]) :
               input \in DirNames, io \in CallThenList}
      [] m.state = stateEditor ->
           {saveFile(m, fs, regFile, io) : io \in BOOLEAN}
      [] m.state = stateConfirmDelete ->
           {confirmDelete(m, fs, regFile, io[1], TRUE, TRUE, TRUE, TRUE, {}, io[2]) :
               io \in CallThenList}

\* The session state of a Model: view state, vault root, current directory,
\* edited file and pending delete target.
session(mm) == <<mm.state, mm.vault, mm.current, mm.editing, mm.pending>>

\* The statuses that describe an error.
errorStatuses == {statusError, statusEscape, statusInvalid, statusPartial}

\* C4: a mutating transition that fails leaves the session as it was,
\* but for the status, which describes the error.
C4_FailureKeepsSession ==
    [][\A r \in Outcomes :
          (r.failed /\ m' = r.m /\ fs' = r.fs /\ regFile' = r.reg)
              => /\ session(m') = session(m)
                 /\ m'.status \in errorStatuses]_vars

\* The path a create prompt makes of its input: the trimmed input (with
\* ".md" for a file) joined to the current directory.
fileCandidate(input) == Join(m.current, TrimSpace(input) \o <<".", "m", "d">>)
dirCandidate(input) == Join(m.current, TrimSpace(input))

\* C5: a create-file or create-directory submission whose candidate path
\* is outside the vault creates nothing and leaves the state as it is;
\* only the status changes.
C5_EscapeRejected ==
    /\ m.state = stateFileCreate =>
          \A input \in FileNames :
              ~IsWithin(m.vault, fileCandidate(input)) =>
                  \A io \in CallThenList :
                      \E r \in {handleEnterFileCreate(m, fs, regFile, input, io[1], io[2])} :
                          /\ r.fs = fs
                          /\ r.m = [m EXCEPT !.status = r.m.status]
                          /\ r.m.status \in {statusEscape, statusInvalid}
    /\ m.state = stateDirCreate =>
          \A input \in DirNames :
              (TrimSpace(input) # <<>> /\ ~IsWithin(m.vault, dirCandidate(input))) =>
                  \A io \in CallThenList :
                      \E r \in {handleEnterDirCreate(m, fs, regFile, input, io[1], io[2])} :
                          /\ r.fs = fs
                          /\ r.m = [m EXCEPT !.status = statusEscape]

\* C5 happens: a create-directory submission was rejected as escaping.
C5_Witness ==
    /\ m.state = stateDirCreate
    /\ m.status = statusEscape
    /\ \E input \in DirNames :
          TrimSpace(input) # <<>> /\ ~IsWithin(m.vault, dirCandidate(input))

\* The names made of letters and digits only.
alnum == {"A", "N", "V", "a", "d", "h", "m", "n", "o", "q", "v", "1"}
Alnum(name) == name # <<>> /\ \A i \in 1..Len(name) : name[i] \in alnum

\* C6 as stated: a create-file submission is accepted only when the name
\* as entered is non-blank and made of letters and digits; a rejected one
\* creates nothing; the file an accepted one creates is the direct child
\* <entered name>.md of the current directory.
C6_EnteredNameValidated ==
    m.state = stateFileCreate =>
        \A input \in FileNames, io \in CallThenList :
            \E r \in {handleEnterFileCreate(m, fs, regFile, input, io[1], io[2])} :
                /\ ~Alnum(input) => r.fs = fs /\ r.m.state = stateFileCreate
                /\ r.m.state # stateFileCreate => Alnum(input)
                /\ r.fs # fs =>
                      /\ Changed(fs, r.fs) =
                            {m.current \o <<Sep>> \o input \o <<".", "m", "d">>}
                      /\ \A p \in Changed(fs, r.fs) : p \notin DOMAIN fs /\ ~r.fs[p].isDir
                      /\ r.m.state = stateFileList

\* C6: a create-file submission is accepted only when the entered name,
\* trimmed of the white space around it, is non-blank and made of letters
\* and digits; a rejected one creates nothing; the file an accepted one
\* creates is the direct child <trimmed name>.md of the current directory.
C6_FileNameValidated ==
    m.state = stateFileCreate =>
        \A input \in FileNames, io \in CallThenList :
            \E r \in {handleEnterFileCreate(m, fs, regFile, input, io[1], io[2])} :
                /\ ~Alnum(TrimSpace(input)) => r.fs = fs /\ r.m.state = stateFileCreate
                /\ r.m.state # stateFileCreate => Alnum(TrimSpace(input))
                /\ r.fs # fs =>
                      /\ Changed(fs, r.fs) =
                            {m.current \o <<Sep>> \o TrimSpace(input) \o <<".", "m", "d">>}
                      /\ \A p \in Changed(fs, r.fs) : p \notin DOMAIN fs /\ ~r.fs[p].isDir
                      /\ r.m.state = stateFileList

\* C6 happens: a note was created from the prompt.
C6_Witness ==
    /\ m.state = stateFileList
    /\ m.status = statusOk
    /\ \E input \in FileNames :
          /\ Alnum(TrimSpace(input))
          /\ fileCandidate(input) \in DOMAIN fs
          /\ fs[fileCandidate(input)] = FileNode(<<>>)

\* C7: a create-file submission that names an existing note fails: the
\* disk, and so the note's content, is unchanged and an error is reported.
C7_ExistingNoteKept ==
    m.state = stateFileCreate =>
        \A input \in FileNames :
            fileCandidate(input) \in DOMAIN fs =>
                \A io \in CallThenList :
                    \E r \in {handleEnterFileCreate(m, fs, regFile, input, io[1], io[2])} :
                        /\ r.fs = fs
                        /\ r.failed
                        /\ r.m = [m EXCEPT !.status = r.m.status]
                        /\ r.m.status \in errorStatuses

\* C7 happens: the prompt reports an error while the named note is there,
\* with the text saved to it.
C7_Witness ==
    /\ m.state = stateFileCreate
    /\ m.status = statusError
    /\ \E input \in FileNames :
          /\ fileCandidate(input) \in DOMAIN fs
          /\ fs[fileCandidate(input)] = FileNode(<<"m">>)

---------------------------------------------------------------------------
(* Properties of the vault list and the registry                           *)

\* The paths of the rows a list shows.
listed(mm) == {mm.list[i].path : i \in 1..Len(mm.list)}

\* What a load of the registry file returns when its read does not fail.
load(reg) == {loadVaultRegistry(reg, TRUE).paths[i] :
                 i \in 1..Len(loadVaultRegistry(reg, TRUE).paths)}

\* The step confirms the deletion of a vault and the removal succeeds.
VaultRemoved ==
    /\ m.state = stateConfirmDelete
    /\ m.pending.isVault
    /\ m'.state = stateVaultSelect
    /\ m.pending.path \in DOMAIN fs
    /\ m.pending.path \notin DOMAIN fs'

\* C8 as stated: after a confirmed vault deletion whose removal succeeds,
\* neither a load of the registry nor the vault list contains the path.
C8_DeletedVaultUnregistered ==
    [][VaultRemoved =>
          /\ m.pending.path \notin load(regFile')
          /\ m.pending.path \notin listed(m')]_vars

\* C8: after a confirmed vault deletion whose removal succeeds, the vault
\* list does not contain the path; a load of the registry contains it only
\* when the registry could not be updated, and then the status says so.
C8_DeletedVaultDelisted ==
    [][VaultRemoved =>
          /\ m.pending.path \notin listed(m')
          /\ m.pending.path \in load(regFile') => m'.status = statusPartial
          /\ m'.status = statusOk => m.pending.path \notin load(regFile')]_vars

\* C8 happens: a registered vault was deleted, and is gone from the disk,
\* the registry and the list.
C8_Witness ==
    /\ probe = NoProbe
    /\ m.state = stateVaultSelect
    /\ m.status = statusOk
    /\ VaultV \notin DOMAIN fs
    /\ regFile.kind = "doc"
    /\ VaultV \notin load(regFile)
    /\ VaultV \notin listed(m)

\* A sequence of paths is ordered case-insensitively.
CaseOrdered(v) ==
    \A i \in 1..(Len(v) - 1) : ~StrLess(ToLower(v[i + 1]), ToLower(v[i]))

\* No two entries of a sequence of paths resolve to the same path.
Distinct(v) ==
    \A i \in 1..Len(v), j \in 1..Len(v) :
        i # j => Abs(TrimSpace(v[i])).path # Abs(TrimSpace(v[j])).path

\* C10: the registry file the operations persist has no two entries that
\* resolve to the same path, and is ordered case-insensitively.
C10_RegistryNormalised ==
    regFile.kind = "doc" => Distinct(regFile.vaults) /\ CaseOrdered(regFile.vaults)

\* C10 happens: of two registered vaults one was deleted and unregistered.
C10_Witness ==
    /\ probe = NoProbe
    /\ m.state = stateVaultSelect
    /\ m.status = statusOk
    /\ VaultV \notin DOMAIN fs
    /\ regFile = Doc(<<VaultA>>)

---------------------------------------------------------------------------
(* Properties of the guard and of the registry's functions                 *)

\* The element sequence a begins the element sequence b.
Begins(a, b) == Len(a) <= Len(b) /\ SubSeq(b, 1, Len(a)) = a

\* Both paths of the probe can be resolved: a relative path needs the
\* working directory.
Resolvable ==
    cwd # <<>> \/ (probe.rootStyle # "relative" /\ probe.pathStyle # "relative")

\* The path is a sibling of the root whose name the root's name is a
\* proper string prefix of, or lies below such a sibling.
PrefixSibling(root, path) ==
    /\ root # <<>>
    /\ Len(path) >= Len(root)
    /\ SubSeq(path, 1, Len(root) - 1) = SubSeq(root, 1, Len(root) - 1)
    /\ path[Len(root)] # root[Len(root)]
    /\ HasPrefix(path[Len(root)], root[Len(root)])

\* C3: the guard answers true for the root and for every path below it,
\* false for every ancestor of the root and for every sibling whose name
\* the root's name is a string prefix of, and false when a path cannot be
\* resolved.
C3_GuardDecides ==
    (probe.kind = "guard" /\ probe.done) =>
        /\ (Resolvable /\ Begins(probe.root, probe.path)) => probe.inside
        /\ (Begins(probe.path, probe.root) /\ probe.path # probe.root) => ~probe.inside
        /\ PrefixSibling(probe.root, probe.path) => ~probe.inside
        /\ ~Resolvable => ~probe.inside

\* C3 happens: the guard was asked about a sibling that shares the root's
\* name as a prefix.
C3_Witness ==
    /\ probe.kind = "guard"
    /\ probe.done
    /\ Resolvable
    /\ PrefixSibling(probe.root, probe.path)
    /\ ~probe.inside

\* The set of the elements of a sequence.
Range(v) == {v[i] : i \in 1..Len(v)}

\* The canonical paths of a sequence of entries: each trimmed and resolved,
\* the blank and the unresolvable ones left out.
CanonicalSet(X) ==
    {Abs(TrimSpace(x)).path :
        x \in {y \in Range(X) : TrimSpace(y) # <<>> /\ ~Abs(TrimSpace(y)).err}}

pathsOf(reg) == Range(loadVaultRegistry(reg, TRUE).paths)

rowPaths(items) == {items[i].path : i \in 1..Len(items)}

\* C12: when the vault list is loaded, a registered path that is no longer
\* a directory on the disk is not in the list, whatever the outcome of the
\* calls; the save that follows drops it from the registry file, and a
\* save that fails leaves the file as it was.
C12_RemovedVaultDropped ==
    \A p \in VaultDirs :
        (p \in pathsOf(regFile) /\ ~IsDirAt(fs, p)) =>
            \A ioR \in BOOLEAN, ioW \in BOOLEAN, denied \in SUBSET VaultDirs :
                \E v \in {getVaults(fs, regFile, ioR, ioW, denied)} :
                    /\ p \notin rowPaths(v.items)
                    /\ ioW => p \notin pathsOf(v.reg)
                    /\ ~ioW => v.reg = regFile

\* C12 happens: a registered vault directory was removed by another
\* program, and the list loaded since neither shows nor keeps it.
C12_Witness ==
    /\ probe.kind = "removed"
    /\ probe.registered
    /\ probe.path \notin DOMAIN fs
    /\ m.state = stateVaultSelect
    /\ probe.path \notin rowPaths(m.list)
    /\ regFile.kind = "doc"
    /\ probe.path \notin pathsOf(regFile)

\* C13: when the program starts and the read or the write of the registry
\* file fails, the vault list it shows is empty (the action rows only) and
\* the status reports the error.
C13_RegistryFailureReported ==
    \A ioR \in BOOLEAN, ioW \in BOOLEAN :
        (loadVaultRegistry(regFile, ioR).err \/ ~ioW) =>
            \E started \in {initialModel(getVaults(fs, regFile, ioR, ioW, {}))} :
                /\ started.list = ActionRows
                /\ started.status \in errorStatuses

\* C14: in the file list at the vault root, going to the parent (backspace,
\* or enter on a parent row) changes nothing: the Model, its list and
\* status included, and the disk are as before.
C14_ParentAtRootNoOp ==
    (m.state = stateFileList /\ samePath(m.current, m.vault)) =>
        \A ioDir \in BOOLEAN :
            /\ goParent(m, fs, regFile, ioDir) = Res(m, fs, regFile, FALSE)
            /\ \A sel \in Rows(m) :
                  sel.mode = "up" =>
                      handleEnterFileList(m, fs, regFile, sel, ioDir, ioDir)
                          = Res(m, fs, regFile, FALSE)

\* C14 happens: the file list is at the vault root, back from a directory
\* below it, and (the listing of the root having failed) still shows the
\* parent row of that directory.
C14_Witness ==
    /\ m.state = stateFileList
    /\ m.current = m.vault
    /\ \E i \in 1..Len(m.list) : m.list[i].mode = "up" /\ m.list[i].path = m.vault

\* C15: in the editor, a save of the text t that succeeds stores t in the
\* edited file, and after esc, enter on the row of that file opens the
\* editor on it with the text t.
C15_SaveReopenRoundTrip ==
    m.state = stateEditor =>
        \A t \in Texts, ioDir \in BOOLEAN :
            LET reopened(r3) ==
                    /\ ~r3.failed
                    /\ r3.m.state = stateEditor
                    /\ r3.m.editing = m.editing
                    /\ r3.m.textarea = t
                left(r2) ==
                    /\ r2.m.state = stateFileList
                    /\ r2.fs[m.editing] = FileNode(t)
                    /\ \A sel \in Rows(r2.m) :
                          (sel.mode = "" /\ ~sel.isDir /\ sel.path = m.editing) =>
                              reopened(handleEnterFileList(r2.m, r2.fs, r2.reg, sel, TRUE, TRUE))
                saved(r1) ==
                    ~r1.failed =>
                        /\ r1.fs[m.editing] = FileNode(t)
                        /\ left(escEditor(r1.m, r1.fs, r1.reg, ioDir))
            IN  saved(saveFile([m EXCEPT !.textarea = t], fs, regFile, TRUE))

\* C15 happens: the editor is open on a note with the text that was
\* saved to it.
C15_Witness ==
    /\ m.state = stateEditor
    /\ m.status = statusOk
    /\ m.textarea = <<"m">>
    /\ m.editing \in DOMAIN fs
    /\ fs[m.editing] = FileNode(<<"m">>)
    /\ \E i \in 1..Len(m.list) : m.list[i].path = m.editing

\* C16: in the file list, the rows shown (the parent row apart) are the
\* entries the current directory has on the disk.
C16_ListShowsCurrentDirectory ==
    m.state = stateFileList =>
        {m.list[i].path : i \in {j \in 1..Len(m.list) : m.list[j].mode # "up"}}
            = Children(fs, m.current)

\* The list state a prompt or a confirmation belongs to: the vault list for
\* the vault prompts and the deletion of a vault, the file list for the
\* file and directory prompts and the deletion of an entry.
origin(mm) ==
    IF mm.state \in {stateVaultCreate, stateVaultOpenPath} THEN stateVaultSelect
    ELSE IF mm.state = stateConfirmDelete /\ mm.pending.isVault THEN stateVaultSelect
    ELSE stateFileList

\* C17: esc at a prompt or at the confirmation of a deletion, and "n" at
\* the confirmation, return to the list state it was entered from and drop
\* the delete target; nothing else of the Model, and nothing of the disk
\* and the registry file, changes.
C17_CancelReturns ==
    m.state \in {stateVaultCreate, stateVaultOpenPath, stateFileCreate,
                 stateDirCreate, stateConfirmDelete} =>
        /\ m.state = stateConfirmDelete => m.pending.set
        /\ cancel(m, fs, regFile)
              = Res([m EXCEPT !.state = origin(m), !.pending = NoPending],
                    fs, regFile, FALSE)

\* C17 happens: the file list is back after a prompt that rejected its
\* input was cancelled.
C17_Witness ==
    /\ m.state = stateFileList
    /\ m.lastList = stateFileList
    /\ m.pending = NoPending
    /\ m.status = statusInvalid

\* The changes of view state of the transition table.
tableStep(from, to) ==
    CASE to.state \in {stateVaultCreate, stateVaultOpenPath} ->
           from.state = stateVaultSelect
      [] to.state \in {stateFileCreate, stateDirCreate, stateEditor} ->
           from.state = stateFileList
      [] to.state = stateConfirmDelete ->
           /\ to.pending.set
           /\ from.state = (IF to.pending.isVault THEN stateVaultSelect ELSE stateFileList)
      [] to.state = stateFileList ->
           \/ from.state \in {stateVaultSelect, stateVaultCreate, stateVaultOpenPath}
           \/ from.state \in {stateFileCreate, stateDirCreate, stateEditor}
           \/ from.state = stateConfirmDelete /\ from.lastList = stateFileList
                                                /\ ~from.pending.isVault
      [] to.state = stateVaultSelect ->
           \/ from.state \in {stateVaultCreate, stateVaultOpenPath}
           \/ from.state = stateConfirmDelete /\ from.lastList = stateVaultSelect
                                                /\ from.pending.isVault

\* C18: the session starts in the vault list, and every step that changes
\* the view state is a transition of the table: the vault prompts and the
\* deletion of a vault are entered from the vault list only; the file and
\* directory prompts, the editor and the deletion of an entry from the file
\* list only; the file list by opening a vault, from its own prompts and
\* the editor, and from a confirmation that was entered from it.
C18_TransitionsOfTable ==
    /\ m.state = stateVaultSelect
    /\ [][m'.state # m.state => tableStep(m, m')]_vars

\* C18 happens: the deletion of an entry waits for its confirmation, in a
\* vault that was opened from the vault list.
C18_Witness ==
    /\ m.state = stateConfirmDelete
    /\ m.lastList = stateFileList
    /\ m.pending.set
    /\ ~m.pending.isVault
    /\ m.vault # <<>>

\* C19: a vault-name submission that makes the directory and then fails to
\* register it leaves the directory on the disk, reports the failure in
\* the status and does not open the vault: the view state, the vault root
\* and the current directory are as before, and so is the registry file.
C19_UnregisteredVaultNotOpened ==
    m.state = stateVaultCreate =>
        \A input \in VaultNames, ioR \in BOOLEAN, ioW \in BOOLEAN, ioDir \in BOOLEAN :
            LET after(path, r) ==
                    (path \notin DOMAIN fs /\ registerVault(regFile, path, ioR, ioW).err) =>
                        /\ r.fs = Put(fs, path, DirNode)
                        /\ r.m = [m EXCEPT !.status = statusPartial]
                        /\ r.reg = regFile
            IN  TrimSpace(input) # <<>> =>
                    after(Join(vaultStorageRoot, TrimSpace(input)),
                          handleEnterVaultCreate(m, fs, regFile, input, TRUE, ioR, ioW, ioDir))

\* C19 happens: the prompt reports the failed registration of a directory
\* that is on the disk and is neither registered nor listed (no vault is
\* missing from the disk, so the report is not that of a deletion).
C19_Witness ==
    /\ probe = NoProbe
    /\ m.state = stateVaultCreate
    /\ m.status = statusPartial
    /\ m.vault = <<>>
    /\ VaultV \in DOMAIN fs
    /\ VaultA \in DOMAIN fs
    /\ VaultA \notin pathsOf(regFile)
    /\ VaultA \notin rowPaths(m.list)

\* C20: whatever the outcomes of the read and the write of the registry
\* file, every path the file registers that is a directory on the disk is
\* still registered by the file after the vault list is loaded.
C20_LoadKeepsLiveVaults ==
    \A ioR \in BOOLEAN, ioW \in BOOLEAN :
        \E v \in {getVaults(fs, regFile, ioR, ioW, {})} :
            \A p \in pathsOf(regFile) :
                IsDirAt(fs, p) => p \in pathsOf(v.reg)

---------------------------------------------------------------------------
(* Properties of the delete target, the listing and the edited file        *)

\* C21: at the confirmation of a deletion the target is set, and is either
\* a vault, staged in the vault list from one of its vault rows, or no
\* vault, staged in the file list from an entry of the current directory;
\* ctrl+x with no row selected, on an action row or on the parent row
\* changes nothing.
C21_DeleteStagedForRealTarget ==
    /\ m.state = stateConfirmDelete =>
          /\ m.pending.set
          /\ m.pending.isVault =>
                /\ m.lastList = stateVaultSelect
                /\ \E i \in 1..Len(m.list) :
                      m.list[i].mode = "" /\ m.list[i].path = m.pending.path
          /\ ~m.pending.isVault =>
                /\ m.lastList = stateFileList
                /\ m.pending.path \in Children(fs, m.current)
    /\ m.state = stateVaultSelect =>
          \A sel \in Rows(m) :
              (sel = NoItem \/ sel.mode # "") => stageVaultDelete(m, sel) = m
    /\ m.state = stateFileList =>
          \A sel \in Rows(m) :
              (sel = NoItem \/ sel.mode # "") => stageEntryDelete(m, sel) = m

\* C22: in the file list, the rows shown begin with the parent row exactly
\* when the current directory is not the vault root.
C22_ParentRowIffBelowRoot ==
    m.state = stateFileList =>
        ((m.list # <<>> /\ m.list[1].mode = "up") <=> m.current # m.vault)

\* C23: in the file list, of any two rows after the parent row, a file
\* never comes before a directory, and of two directories or two files the
\* one whose name is the smaller, letter case apart, never comes second.
C23_ListingOrderedByName ==
    m.state = stateFileList =>
        \A i \in 1..Len(m.list), j \in 1..Len(m.list) :
            (i < j /\ m.list[i].mode # "up") =>
                /\ m.list[j].isDir => m.list[i].isDir
                /\ m.list[i].isDir = m.list[j].isDir =>
                      ~LowerLess(Base(m.list[j].path), Base(m.list[i].path))

\* C24 as stated: the edited file is set exactly in the editor.
C24_EditingIffEditor == (m.editing # <<>>) <=> (m.state = stateEditor)

\* C24: the edited file is not set when the session starts; it is assigned
\* only by the step that opens the editor from the file list, to the file
\* row that was selected, whose content the text area then holds; it is set
\* whenever the editor is open; and the step that leaves the editor keeps
\* it as it is.
C24_EditingSetByOpen ==
    /\ m.editing = <<>>
    /\ m.state # stateEditor
    /\ [][/\ m'.state = stateEditor => m'.editing # <<>>
          /\ m'.editing # m.editing =>
                (m.state = stateFileList /\ m'.state = stateEditor)
          /\ (m.state # stateEditor /\ m'.state = stateEditor) =>
                /\ m.state = stateFileList
                /\ \E i \in 1..Len(m.list) :
                      ~m.list[i].isDir /\ m.list[i].path = m'.editing
                /\ m'.editing \in DOMAIN fs
                /\ m'.textarea = fs[m'.editing].content
          /\ (m.state = stateEditor /\ m'.state # stateEditor) =>
                (m'.state = stateFileList /\ m'.editing = m.editing)]_vars

\* C24 happens: the file list is back after esc in the editor, and the
\* file that was edited is still noted.
C24_Witness ==
    /\ m.state = stateFileList
    /\ m.editing # <<>>
    /\ m.editing \in DOMAIN fs
    /\ \E i \in 1..Len(m.list) : m.list[i].path = m.editing

\* C25: a vault-path submission that opens the directory as a vault leaves
\* its path in the registry file, and the vault list of a session started
\* afterwards shows it.
C25_OpenedPathRegistered ==
    m.state = stateVaultOpenPath =>
        \A input \in PathInputs, io \in CallThenList :
            \E r \in {openVaultPath(m, fs, regFile, input, io[1], io[2])} :
                r.m.state = stateFileList =>
                    /\ r.m.vault \in pathsOf(r.reg)
                    /\ r.m.vault \in rowPaths(getVaults(r.fs, r.reg, TRUE, TRUE, {}).items)

\* C26: no vault is open when the session starts; once the session is
\* inside a vault it stays inside it, with the same vault root; and the
\* vault root is assigned only by a step that enters the file list from
\* the vault list, the vault-name prompt or the vault-path prompt.
C26_VaultRootSetOnce ==
    /\ m.vault = <<>>
    /\ ~InVault
    /\ [][/\ InVault => (InVault' /\ m'.vault = m.vault)
          /\ m'.vault # m.vault =>
                /\ m.state \in {stateVaultSelect, stateVaultCreate, stateVaultOpenPath}
                /\ m'.state = stateFileList]_vars

\* C26 happens: the file list of the opened vault is back after a prompt
\* entered from it rejected a path outside the vault and was cancelled.
C26_Witness ==
    /\ m.state = stateFileList
    /\ m.lastList = stateFileList
    /\ m.vault = VaultV
    /\ m.status = statusEscape

====
